---- MODULE Spec2Model ----
(***************************************************************************)
(* The metadata catalog of the storage engine (src/src/catalog/catalog.cpp)*)
(* as a state machine: the live object graph (databases_ -> tables ->      *)
(* indexes), the four system-catalog tables (pg_database, pg_table,        *)
(* pg_attribute, pg_index) as sets of tuples, and the oid generator.       *)
(* Every DDL operation is an operator from a catalog state to a catalog    *)
(* state and a result, translated from its code; the actions apply them to *)
(* inputs drawn from small sets.                                           *)
(***************************************************************************)
EXTENDS Integers, Sequences, FiniteSets, TLC

VARIABLES
  databases_,    \* Catalog::databases_: the live Database objects, in list order
  pg_database,   \* tuples of the database catalog
  pg_table,      \* tuples of the table catalog
  pg_attribute,  \* tuples of the column catalog
  pg_index,      \* tuples of the index catalog
  oid_,          \* the oid generator: the next oid it hands out
  created,       \* history: the oids of the objects constructed, in construction order
  fault,         \* TRUE once an operation has ended the process
  last,          \* the last call: its operation and its result
  functions_,    \* Catalog::functions_: the registry, function name to FunctionData
  calls,         \* history: the AddFunction and RemoveFunction calls made, in order
  executor,      \* the materialization executor: its state and its plan node
  child,         \* the child executor: the tiles it returns and how many calls it got
  tiles,         \* the physical tiles, by id: their values and their buffer pools
  result,        \* the logical tile the last GetNextTile returned, or NullTile
  returns,       \* history: what each GetNextTile call returned
  threads,       \* the threads that call CreateDatabase: where each is in the call
  catalog_mutex, \* the thread that holds catalog_mutex, 0 when it is free
  reader,        \* the thread that looks a database up: where it is in the loop
  dropper,       \* the thread that calls DropDatabaseWithOid: where it is in the call
  destroyed      \* the oids of the Database objects that were deleted

vars ==
  <<databases_, pg_database, pg_table, pg_attribute, pg_index, oid_, created, fault, last,
    functions_, calls, executor, child, tiles, result, returns, threads, catalog_mutex,
    reader, dropper, destroyed>>

-----------------------------------------------------------------------------
(* Bounds of the model.                                                    *)

\* how many oids the generator may hand out after bootstrap
MaxNewOids == 3

\* how many AddFunction and RemoveFunction calls a run makes after bootstrap
MaxCalls == 3

\* how many rows the source tiles of the materialization hold
TupleCount == 2

\* how many tiles the child of the materialization executor is told to return
MaxChildTiles == 2

\* how many threads call CreateDatabase at the same time
NumThreads == 2

-----------------------------------------------------------------------------
(* Program constants.                                                      *)

INVALID_OID == 0
CATALOG_DATABASE_OID == 1
DATABASE_CATALOG_OID == 2
TABLE_CATALOG_OID == 3
INDEX_CATALOG_OID == 4
COLUMN_CATALOG_OID == 5
START_OID == 6

CATALOG_DATABASE_NAME == "pg_catalog"
DATABASE_CATALOG_NAME == "pg_database"
TABLE_CATALOG_NAME == "pg_table"
INDEX_CATALOG_NAME == "pg_index"
COLUMN_CATALOG_NAME == "pg_attribute"
DATABASE_METRIC_NAME == "database_metric"
INDEX_METRIC_NAME == "index_metric"
TABLE_METRIC_NAME == "table_metric"
QUERY_METRIC_NAME == "query_metric"

SUCCESS == "SUCCESS"
FAILURE == "FAILURE"
\* not a ResultType: the call dereferenced a null pointer and never returned
FAULT == "FAULT"
ResultType == {SUCCESS, FAILURE}

\* how a call of the function registry ends: it returns, it throws an
\* Exception, or a failed PL_ASSERT ends the process
RETURNED == "RETURNED"
THROWN == "THROWN"
ABORTED == "ABORTED"

-----------------------------------------------------------------------------
(* Helpers on sequences.                                                   *)

MinOf(S) == CHOOSE x \in S : \A y \in S : x <= y

\* the first of the positions S of a list, 0 (nullptr) when there is none
FirstIndex(S) == IF S = {} THEN 0 ELSE MinOf(S)

RemoveAt(s, i) == SubSeq(s, 1, i - 1) \o SubSeq(s, i + 1, Len(s))

Ok(c) == [c |-> c, result |-> SUCCESS]
Fail(c) == [c |-> c, result |-> FAILURE]
Crash(c) == [c |-> c, result |-> FAULT]

\* history: an object was constructed with this oid
Constructed(c, oid) == [c EXCEPT !.created = Append(@, oid)]

-----------------------------------------------------------------------------
(* Schema and Column descriptors.                                          *)

Column(name, primary) == [column_name |-> name, is_primary |-> primary]

\* StringUtil::Upper on the names the model uses
Upper(s) ==
  CASE s = "t_PKEY" -> "T_PKEY"
    [] s = "u_PKEY" -> "U_PKEY"
    [] s = "pg_database_PKEY" -> "PG_DATABASE_PKEY"
    [] s = "pg_table_PKEY" -> "PG_TABLE_PKEY"
    [] s = "pg_index_PKEY" -> "PG_INDEX_PKEY"
    [] s = "pg_attribute_PKEY" -> "PG_ATTRIBUTE_PKEY"
    [] s = "database_metric_PKEY" -> "DATABASE_METRIC_PKEY"
    [] s = "index_metric_PKEY" -> "INDEX_METRIC_PKEY"
    [] s = "table_metric_PKEY" -> "TABLE_METRIC_PKEY"
    [] s = "query_metric_PKEY" -> "QUERY_METRIC_PKEY"
    [] OTHER -> s

-----------------------------------------------------------------------------
(* The oid generator.                                                      *)

GetNextOid(c) == [c |-> [c EXCEPT !.oid_ = @ + 1], oid |-> c.oid_]

-----------------------------------------------------------------------------
(* The system-catalog accessors: insert, delete and lookup of tuples.      *)

InsertDatabase(c, database_oid, database_name) ==
  [c EXCEPT !.pg_database = @ \cup
     {[database_oid |-> database_oid, database_name |-> database_name]}]

GetDatabaseOid(c, database_name) ==
  LET S == {t.database_oid : t \in {u \in c.pg_database : u.database_name = database_name}}
  IN IF S = {} THEN INVALID_OID ELSE MinOf(S)

\* the bool DeleteDatabase returns is HasDatabaseTuple before the call
HasDatabaseTuple(c, database_oid) == \E t \in c.pg_database : t.database_oid = database_oid

DeleteDatabase(c, database_oid) ==
  [c EXCEPT !.pg_database = {t \in @ : t.database_oid # database_oid}]

InsertTable(c, table_oid, table_name, database_oid, database_name) ==
  [c EXCEPT !.pg_table = @ \cup
     {[table_oid |-> table_oid, table_name |-> table_name,
       database_oid |-> database_oid, database_name |-> database_name]}]

\* GetTableOid(table_name, txn) looks a table up by its name alone: every tuple
\* of that name is a possible answer
GetTableOidChoices(c, table_name) ==
  LET S == {t.table_oid : t \in {u \in c.pg_table : u.table_name = table_name}}
  IN IF S = {} THEN {INVALID_OID} ELSE S

GetTableOids(c, database_oid) ==
  {t.table_oid : t \in {u \in c.pg_table : u.database_oid = database_oid}}

DeleteTable(c, table_oid) ==
  [c EXCEPT !.pg_table = {t \in @ : t.table_oid # table_oid}]

InsertColumn(c, table_oid, column_name, column_offset) ==
  [c EXCEPT !.pg_attribute = @ \cup
     {[table_oid |-> table_oid, column_name |-> column_name,
       column_offset |-> column_offset]}]

DeleteColumn(c, table_oid, column_name) ==
  [c EXCEPT !.pg_attribute =
     {t \in @ : ~(t.table_oid = table_oid /\ t.column_name = column_name)}]

IndexCatalogInsert(c, index_oid, index_name, table_oid, database_oid, unique_keys) ==
  [c EXCEPT !.pg_index = @ \cup
     {[index_oid |-> index_oid, index_name |-> index_name, table_oid |-> table_oid,
       database_oid |-> database_oid, unique_keys |-> unique_keys]}]

GetTableidByOid(c, index_oid) ==
  LET S == {t.table_oid : t \in {u \in c.pg_index : u.index_oid = index_oid}}
  IN IF S = {} THEN INVALID_OID ELSE MinOf(S)

DeleteByOid(c, index_oid) ==
  [c EXCEPT !.pg_index = {t \in @ : t.index_oid # index_oid}]

-----------------------------------------------------------------------------
(* The storage objects: Database and DataTable.                            *)

Database(oid, name) == [oid |-> oid, name |-> name, tables |-> <<>>]

DataTable(database_oid, table_oid, schema, table_name, is_catalog) ==
  [oid |-> table_oid, name |-> table_name, database_oid |-> database_oid,
   columns |-> schema, indexes |-> <<>>, is_catalog |-> is_catalog]

\* Database::GetTableWithName / GetTableWithOid: a position in tables, 0 is nullptr
DbGetTableWithName(db, table_name) ==
  FirstIndex({i \in 1..Len(db.tables) : db.tables[i].name = table_name})

DbGetTableWithOid(db, table_oid) ==
  FirstIndex({i \in 1..Len(db.tables) : db.tables[i].oid = table_oid})

\* Database::AddTable on the database at position d
AddTable(c, d, table) ==
  [c EXCEPT !.databases_[d].tables = Append(@, table)]

\* Database::DropTableWithOid on the database at position d
DbDropTableWithOid(c, d, table_oid) ==
  [c EXCEPT !.databases_[d].tables = RemoveAt(@, DbGetTableWithOid(c.databases_[d], table_oid))]

\* DataTable::AddIndex on table t of database d
AddIndex(c, d, t, index) ==
  [c EXCEPT !.databases_[d].tables[t].indexes = Append(@, index)]

\* DataTable::DropIndexes
DropIndexes(c, d, t) ==
  [c EXCEPT !.databases_[d].tables[t].indexes = <<>>]

\* DataTable::DropIndexWithOid
DropIndexWithOid(c, d, t, index_oid) ==
  LET Keep(i) == i.oid # index_oid IN
  [c EXCEPT !.databases_[d].tables[t].indexes = SelectSeq(@, Keep)]

\* index::IndexMetadata, as IndexFactory::GetIndex keeps it
IndexMetadata(name, oid, table_oid, database_oid, index_type, constraint, key_attrs, unique_keys) ==
  [name |-> name, oid |-> oid, table_oid |-> table_oid,
   database_oid |-> database_oid, index_type |-> index_type,
   constraint |-> constraint, key_attrs |-> key_attrs, unique_keys |-> unique_keys]

-----------------------------------------------------------------------------
(* Catalog lookups.                                                        *)

\* a position in databases_, 0 is nullptr
GetDatabaseWithOid(c, db_oid) ==
  FirstIndex({i \in 1..Len(c.databases_) : c.databases_[i].oid = db_oid})

GetDatabaseWithName(c, database_name) ==
  GetDatabaseWithOid(c, GetDatabaseOid(c, database_name))

HasDatabase(c, db_oid) == GetDatabaseWithOid(c, db_oid) # 0

\* Catalog::GetTableWithName: the positions <<d, t>> of the database and of the
\* table in it, <<0, 0>> is nullptr
GetTableWithName(c, database_name, table_name) ==
  LET d == GetDatabaseWithName(c, database_name) IN
  IF d # 0
  THEN LET t == DbGetTableWithName(c.databases_[d], table_name) IN
       IF t # 0 THEN <<d, t>> ELSE <<0, 0>>
  ELSE <<0, 0>>

GetDatabaseCount(c) == Len(c.databases_)

-----------------------------------------------------------------------------
(* DDL operations.                                                         *)

\* mutant: the database tuple is never inserted (line 134 left out)
CreateDatabase_NoTuple(c, database_name) ==
  LET database_oid == GetDatabaseOid(c, database_name) IN
  IF database_oid # INVALID_OID THEN Fail(c)
  ELSE LET g == GetNextOid(c)
           database == Database(g.oid, database_name)
       IN Ok([Constructed(g.c, database.oid) EXCEPT !.databases_ = Append(@, database)])

CreateDatabase(c, database_name) ==
  LET database_oid == GetDatabaseOid(c, database_name) IN
  IF database_oid # INVALID_OID THEN Fail(c)
  ELSE LET g == GetNextOid(c)
           database == Database(g.oid, database_name)
           c1 == [Constructed(g.c, database.oid) EXCEPT !.databases_ = Append(@, database)]
       IN Ok(InsertDatabase(c1, g.oid, database_name))

\* the ordinals (from 0) of the columns flagged primary, in column order
RECURSIVE PrimaryKeyAttrs(_, _)

\* mutant: column_idx++ moved inside the if of line 227, so that it counts the
\* primary columns instead of all columns
PrimaryKeyAttrs_CountsPrimary(columns, column_idx) ==
  LET Primary == SelectSeq(columns, LAMBDA col : col.is_primary)
  IN [i \in 1..Len(Primary) |-> column_idx + i - 1]

PrimaryKeyAttrs(columns, column_idx) ==
  IF column_idx >= Len(columns) THEN <<>>
  ELSE (IF columns[column_idx + 1].is_primary THEN <<column_idx>> ELSE <<>>)
       \o PrimaryKeyAttrs(columns, column_idx + 1)

\* mutant: the index is given the oid of its table instead of a new one
\* (table->GetOid() in place of GetNextOid() at line 241)
CreatePrimaryIndex_TableOid(c, database_name, table_name) ==
  LET d == GetDatabaseWithName(c, database_name) IN
  IF d # 0
  THEN LET t == DbGetTableWithName(c.databases_[d], table_name) IN
       IF t = 0 THEN Fail(c)
       ELSE LET database == c.databases_[d]
                table == database.tables[t]
                key_attrs == PrimaryKeyAttrs(table.columns, 0)
                index_metadata ==
                  IndexMetadata(Upper(table.name \o "_PKEY"), table.oid, table.oid,
                                database.oid, "BWTREE", "PRIMARY_KEY", key_attrs, TRUE)
            IN Ok(AddIndex(Constructed(c, index_metadata.oid), d, t, index_metadata))
  ELSE Fail(c)

CreatePrimaryIndex(c, database_name, table_name) ==
  LET d == GetDatabaseWithName(c, database_name) IN
  IF d # 0
  THEN LET t == DbGetTableWithName(c.databases_[d], table_name) IN
       IF t = 0 THEN Fail(c)
       ELSE LET database == c.databases_[d]
                table == database.tables[t]
                key_attrs == PrimaryKeyAttrs(table.columns, 0)
                index_name == table.name \o "_PKEY"
                unique_keys == TRUE
                g == GetNextOid(c)
                index_metadata ==
                  IndexMetadata(Upper(index_name), g.oid, table.oid, database.oid,
                                "BWTREE", "PRIMARY_KEY", key_attrs, unique_keys)
            IN Ok(AddIndex(Constructed(g.c, index_metadata.oid), d, t, index_metadata))
  ELSE Fail(c)

\* mutant: every column is recorded at offset 0
InsertColumns_NoOffset(c, table_oid, columns, column_idx) ==
  [c EXCEPT !.pg_attribute = @ \cup
     {[table_oid |-> table_oid, column_name |-> columns[i].column_name, column_offset |-> 0] :
        i \in (column_idx + 1)..Len(columns)}]

\* the InsertColumn loop of CreateTable: one tuple per column, by its offset
RECURSIVE InsertColumns(_, _, _, _)
InsertColumns(c, table_oid, columns, column_idx) ==
  IF column_idx >= Len(columns) THEN c
  ELSE InsertColumns(
         InsertColumn(c, table_oid, columns[column_idx + 1].column_name, column_idx),
         table_oid, columns, column_idx + 1)

\* mutant: the check for a table of the same name (lines 164-167) is left out
CreateTable_NoNameCheck(c, database_name, table_name, schema, uninit) ==
  LET d == GetDatabaseWithName(c, database_name) IN
  IF d = 0 THEN Fail(c)
  ELSE LET database_oid == c.databases_[d].oid
           g == GetNextOid(c)
           table == DataTable(database_oid, g.oid, schema, table_name, FALSE)
           c1 == AddTable(Constructed(g.c, table.oid), d, table)
           c2 == InsertTable(c1, g.oid, table_name, database_oid, database_name)
           c3 == InsertColumns(c2, g.oid, table.columns, 0)
       IN IF \E i \in 1..Len(schema) : schema[i].is_primary
          THEN CreatePrimaryIndex(c3, database_name, table_name)
          ELSE [c |-> c3, result |-> uninit]

\* result is declared only inside the if of line 198: without a primary key the
\* value returned at line 201 was never assigned, and uninit stands for it
CreateTable(c, database_name, table_name, schema, uninit) ==
  LET d == GetDatabaseWithName(c, database_name) IN
  IF d = 0 THEN Fail(c)
  ELSE IF DbGetTableWithName(c.databases_[d], table_name) # 0 THEN Fail(c)
  ELSE LET database_oid == c.databases_[d].oid
           g == GetNextOid(c)
           table_oid == g.oid
           table == DataTable(database_oid, table_oid, schema, table_name, FALSE)
           c1 == AddTable(Constructed(g.c, table.oid), d, table)
           c2 == InsertTable(c1, table_oid, table_name, database_oid, database_name)
           c3 == InsertColumns(c2, table_oid, table.columns, 0)
           has_primary_key == \E i \in 1..Len(table.columns) : table.columns[i].is_primary
       IN IF has_primary_key
          THEN CreatePrimaryIndex(c3, database_name, table_name)
          ELSE [c |-> c3, result |-> uninit]

\* the key attributes CreateIndex resolves: for each requested name, in request
\* order, every column position (from 0) that carries that name
RECURSIVE ColumnsNamed(_, _, _)
ColumnsNamed(columns, attr, i) ==
  IF i >= Len(columns) THEN <<>>
  ELSE (IF attr = columns[i + 1].column_name THEN <<i>> ELSE <<>>)
       \o ColumnsNamed(columns, attr, i + 1)

RECURSIVE ResolveKeyAttrs(_, _)
ResolveKeyAttrs(columns, index_attr) ==
  IF index_attr = <<>> THEN <<>>
  ELSE ColumnsNamed(columns, Head(index_attr), 0)
       \o ResolveKeyAttrs(columns, Tail(index_attr))

\* table_oid is the answer of TableCatalog::GetTableOid(table_name, nullptr),
\* one of GetTableOidChoices
CreateIndex(c, database_name, table_name, index_attr, index_name, unique_keys, index_type, table_oid) ==
  LET database_oid == GetDatabaseOid(c, database_name) IN
  IF database_oid = INVALID_OID THEN Fail(c)
  ELSE IF table_oid = INVALID_OID THEN Fail(c)
  ELSE LET d == GetDatabaseWithOid(c, database_oid) IN
  IF d = 0 THEN Fail(c)
  ELSE LET t == DbGetTableWithOid(c.databases_[d], table_oid) IN
  IF t = 0 THEN Fail(c)
  ELSE LET database == c.databases_[d]
           table == database.tables[t]
           key_attrs == ResolveKeyAttrs(table.columns, index_attr)
       IN IF Len(key_attrs) # Len(index_attr) THEN Fail(c)
          ELSE LET g == GetNextOid(c)
                   index_oid == g.oid
                   index_metadata ==
                     IF unique_keys = FALSE
                     THEN IndexMetadata(index_name, index_oid, table.oid, database.oid,
                                        index_type, "DEFAULT", key_attrs, TRUE)
                     ELSE IndexMetadata(index_name, index_oid, table.oid, database.oid,
                                        index_type, "UNIQUE", key_attrs, TRUE)
                   c1 == AddIndex(Constructed(g.c, index_metadata.oid), d, t, index_metadata)
               IN Ok(IndexCatalogInsert(c1, index_oid, index_name, table_oid,
                                        database_oid, unique_keys))

\* line 354 returns FAILURE when the database IS found; past it database is
\* nullptr, and line 369 dereferences it
DropIndex(c, database_oid, index_oid) ==
  LET d == GetDatabaseWithOid(c, database_oid) IN
  IF d # 0 THEN Fail(c)
  ELSE LET table_oid == GetTableidByOid(c, index_oid) IN
       IF table_oid = INVALID_OID THEN Fail(c)
       ELSE Crash(c)

\* mutant: the live Database object is removed too, as the by-oid drop does
DropDatabaseWithName_DropsObject(c, database_name) ==
  LET database_oid == GetDatabaseOid(c, database_name) IN
  IF database_oid = INVALID_OID THEN Fail(c)
  ELSE IF ~HasDatabaseTuple(c, database_oid) THEN Fail(c)
  ELSE LET c1 == DeleteDatabase(c, database_oid)
           d == GetDatabaseWithOid(c1, database_oid)
       IN Ok(IF d = 0 THEN c1 ELSE [c1 EXCEPT !.databases_ = RemoveAt(@, d)])

DropDatabaseWithName(c, database_name) ==
  LET database_oid == GetDatabaseOid(c, database_name) IN
  IF database_oid = INVALID_OID THEN Fail(c)
  ELSE IF ~HasDatabaseTuple(c, database_oid) THEN Fail(c)
  ELSE Ok(DeleteDatabase(c, database_oid))

\* the DeleteColumn loop of DropTable and DropTableWithOid
RECURSIVE DeleteColumns(_, _, _, _)
DeleteColumns(c, table_oid, columns, i) ==
  IF i > Len(columns) THEN c
  ELSE DeleteColumns(DeleteColumn(c, table_oid, columns[i].column_name),
                     table_oid, columns, i + 1)

\* mutant: the DeleteColumn loop of lines 492-497 and 538-543 is left out
DropTableBody_KeepsColumns(c, d, t) ==
  LET table_oid == c.databases_[d].tables[t].oid
  IN Ok(DeleteTable(DbDropTableWithOid(DropIndexes(c, d, t), d, table_oid), table_oid))

\* lines 477-500 and 523-546: what both drops do once database d and table t
\* are at hand
DropTableBody(c, d, t) ==
  LET table == c.databases_[d].tables[t]
      table_oid == table.oid
      c1 == DropIndexes(c, d, t)
      c2 == DbDropTableWithOid(c1, d, table_oid)
      c3 == DeleteTable(c2, table_oid)
  IN Ok(DeleteColumns(c3, table_oid, table.columns, 1))

\* line 469 tests database again, not table: a missing table is dereferenced
\* at line 475
DropTable(c, database_name, table_name) ==
  LET d == GetDatabaseWithName(c, database_name) IN
  IF d = 0 THEN Fail(c)
  ELSE LET t == DbGetTableWithName(c.databases_[d], table_name) IN
       IF t = 0 THEN Crash(c)
       ELSE DropTableBody(c, d, t)

\* line 516 tests database again, not table: a missing table is dereferenced
\* at line 530
DropTableWithOid(c, database_oid, table_oid) ==
  LET d == GetDatabaseWithOid(c, database_oid) IN
  IF d = 0 THEN Fail(c)
  ELSE LET t == DbGetTableWithOid(c.databases_[d], table_oid) IN
       IF t = 0 THEN Crash(c)
       ELSE DropTableBody(c, d, t)

\* the loop of lines 425-427; the results of the calls are dropped
RECURSIVE DropTablesOf(_, _, _)
DropTablesOf(c, database_oid, table_oids) ==
  IF table_oids = {} THEN Ok(c)
  ELSE LET table_oid == MinOf(table_oids)
           r == DropTableWithOid(c, database_oid, table_oid)
       IN IF r.result = FAULT THEN r
          ELSE DropTablesOf(r.c, database_oid, table_oids \ {table_oid})

\* mutant: the loop of lines 425-427 is left out, the tables are not dropped
DropDatabaseWithOid_KeepsTables(c, database_oid) ==
  IF ~HasDatabaseTuple(c, database_oid) THEN Fail(c)
  ELSE LET c1 == DeleteDatabase(c, database_oid)
           d == GetDatabaseWithOid(c1, database_oid)
       IN IF d = 0 THEN Fail(c1)
          ELSE Ok([c1 EXCEPT !.databases_ = RemoveAt(@, d)])

DropDatabaseWithOid(c, database_oid) ==
  LET r == DropTablesOf(c, database_oid, GetTableOids(c, database_oid)) IN
  IF r.result = FAULT THEN r
  ELSE IF ~HasDatabaseTuple(r.c, database_oid) THEN Fail(r.c)
  ELSE LET c1 == DeleteDatabase(r.c, database_oid)
           d == GetDatabaseWithOid(c1, database_oid)
           found_database == d # 0
       IN IF ~found_database THEN Fail(c1)
          ELSE Ok([c1 EXCEPT !.databases_ = RemoveAt(@, d)])

-----------------------------------------------------------------------------
(* Bootstrap: the constructor of the catalog.                              *)

Columns(names) == [i \in 1..Len(names) |-> Column(names[i], FALSE)]

\* the schemas of the four system-catalog tables, the oid column their key
DatabaseCatalogSchema ==
  <<Column("database_oid", TRUE), Column("database_name", FALSE)>>
TableCatalogSchema ==
  <<Column("table_oid", TRUE), Column("table_name", FALSE),
    Column("database_oid", FALSE), Column("database_name", FALSE)>>
IndexCatalogSchema ==
  <<Column("index_oid", TRUE), Column("index_name", FALSE),
    Column("table_oid", FALSE), Column("database_oid", FALSE),
    Column("unique_keys", FALSE)>>
ColumnCatalogSchema ==
  <<Column("table_oid", TRUE), Column("column_name", TRUE),
    Column("column_offset", FALSE)>>

\* XxxCatalog::GetInstance(pg_catalog, pool): the catalog table registers itself
\* in the system database
CatalogTable(c, table_oid, table_name, schema) ==
  AddTable(c, 1, DataTable(CATALOG_DATABASE_OID, table_oid, schema, table_name, TRUE))

InitializeDatabaseMetricsSchema ==
  Columns(<<"database_id", "txn_committed", "txn_aborted", "time_stamp">>)
InitializeTableMetricsSchema ==
  Columns(<<"database_id", "table_id", "reads", "updates", "deletes",
            "inserts", "time_stamp">>)
InitializeIndexMetricsSchema ==
  Columns(<<"database_id", "table_id", "index_id", "reads", "deletes",
            "inserts", "time_stamp">>)
InitializeQueryMetricsSchema ==
  Columns(<<"query_name", "database_id", "num_params", "param_types",
            "param_formats", "param_values", "reads", "updates", "deletes",
            "inserts", "latency", "cpu_time", "time_stamp">>)

\* the column names behind the ordinals lines 86-105 pass to CreateIndex
IndexAttrNames(schema, ordinals) ==
  [i \in 1..Len(ordinals) |-> schema[ordinals[i] + 1].column_name]

\* a bootstrap CreateIndex call: the catalog table names are unique then
BootCreateIndex(c, table_name, index_attr, unique_keys) ==
  CreateIndex(c, CATALOG_DATABASE_NAME, table_name, index_attr,
              table_name \o "_SKEY", unique_keys, "BWTREE",
              MinOf(GetTableOidChoices(c, table_name))).c

InitializeCatalog_ThreeTableTuples ==
  LET c0 == [databases_ |-> <<Database(CATALOG_DATABASE_OID, CATALOG_DATABASE_NAME)>>,
             pg_database |-> {}, pg_table |-> {}, pg_attribute |-> {},
             pg_index |-> {}, oid_ |-> START_OID, created |-> <<>>]
      c1 == CatalogTable(c0, DATABASE_CATALOG_OID, DATABASE_CATALOG_NAME, DatabaseCatalogSchema)
      c2 == CatalogTable(c1, TABLE_CATALOG_OID, TABLE_CATALOG_NAME, TableCatalogSchema)
      c3 == CatalogTable(c2, INDEX_CATALOG_OID, INDEX_CATALOG_NAME, IndexCatalogSchema)
      c4 == CatalogTable(c3, COLUMN_CATALOG_OID, COLUMN_CATALOG_NAME, ColumnCatalogSchema)
      c5 == InsertDatabase(c4, CATALOG_DATABASE_OID, CATALOG_DATABASE_NAME)
      c6 == InsertTable(c5, DATABASE_CATALOG_OID, DATABASE_CATALOG_NAME,
                        CATALOG_DATABASE_OID, CATALOG_DATABASE_NAME)
      c7 == InsertTable(c6, TABLE_CATALOG_OID, TABLE_CATALOG_NAME,
                        CATALOG_DATABASE_OID, CATALOG_DATABASE_NAME)
      c8 == c7
      c9 == InsertTable(c8, COLUMN_CATALOG_OID, COLUMN_CATALOG_NAME,
                        CATALOG_DATABASE_OID, CATALOG_DATABASE_NAME)
      c10 == CreatePrimaryIndex(c9, CATALOG_DATABASE_NAME, DATABASE_CATALOG_NAME).c
      c11 == BootCreateIndex(c10, DATABASE_CATALOG_NAME,
                             IndexAttrNames(DatabaseCatalogSchema, <<1>>), TRUE)
      c12 == CreatePrimaryIndex(c11, CATALOG_DATABASE_NAME, TABLE_CATALOG_NAME).c
      c13 == BootCreateIndex(c12, TABLE_CATALOG_NAME,
                             IndexAttrNames(TableCatalogSchema, <<1, 3>>), TRUE)
      c14 == BootCreateIndex(c13, TABLE_CATALOG_NAME,
                             IndexAttrNames(TableCatalogSchema, <<2>>), FALSE)
      c15 == CreatePrimaryIndex(c14, CATALOG_DATABASE_NAME, INDEX_CATALOG_NAME).c
      c16 == CreatePrimaryIndex(c15, CATALOG_DATABASE_NAME, COLUMN_CATALOG_NAME).c
      c17 == BootCreateIndex(c16, COLUMN_CATALOG_NAME,
                             IndexAttrNames(ColumnCatalogSchema, <<0, 2>>), TRUE)
  IN BootCreateIndex(c17, COLUMN_CATALOG_NAME,
                     IndexAttrNames(ColumnCatalogSchema, <<0>>), FALSE)

InitializeCatalog ==
  LET c0 == [databases_ |-> <<Database(CATALOG_DATABASE_OID, CATALOG_DATABASE_NAME)>>,
             pg_database |-> {}, pg_table |-> {}, pg_attribute |-> {},
             pg_index |-> {}, oid_ |-> START_OID, created |-> <<>>]
      c1 == CatalogTable(c0, DATABASE_CATALOG_OID, DATABASE_CATALOG_NAME, DatabaseCatalogSchema)
      c2 == CatalogTable(c1, TABLE_CATALOG_OID, TABLE_CATALOG_NAME, TableCatalogSchema)
      c3 == CatalogTable(c2, INDEX_CATALOG_OID, INDEX_CATALOG_NAME, IndexCatalogSchema)
      c4 == CatalogTable(c3, COLUMN_CATALOG_OID, COLUMN_CATALOG_NAME, ColumnCatalogSchema)
      c5 == InsertDatabase(c4, CATALOG_DATABASE_OID, CATALOG_DATABASE_NAME)
      c6 == InsertTable(c5, DATABASE_CATALOG_OID, DATABASE_CATALOG_NAME,
                        CATALOG_DATABASE_OID, CATALOG_DATABASE_NAME)
      c7 == InsertTable(c6, TABLE_CATALOG_OID, TABLE_CATALOG_NAME,
                        CATALOG_DATABASE_OID, CATALOG_DATABASE_NAME)
      c8 == InsertTable(c7, INDEX_CATALOG_OID, INDEX_CATALOG_NAME,
                        CATALOG_DATABASE_OID, CATALOG_DATABASE_NAME)
      c9 == InsertTable(c8, COLUMN_CATALOG_OID, COLUMN_CATALOG_NAME,
                        CATALOG_DATABASE_OID, CATALOG_DATABASE_NAME)
      c10 == CreatePrimaryIndex(c9, CATALOG_DATABASE_NAME, DATABASE_CATALOG_NAME).c
      c11 == BootCreateIndex(c10, DATABASE_CATALOG_NAME,
                             IndexAttrNames(DatabaseCatalogSchema, <<1>>), TRUE)
      c12 == CreatePrimaryIndex(c11, CATALOG_DATABASE_NAME, TABLE_CATALOG_NAME).c
      c13 == BootCreateIndex(c12, TABLE_CATALOG_NAME,
                             IndexAttrNames(TableCatalogSchema, <<1, 3>>), TRUE)
      c14 == BootCreateIndex(c13, TABLE_CATALOG_NAME,
                             IndexAttrNames(TableCatalogSchema, <<2>>), FALSE)
      c15 == CreatePrimaryIndex(c14, CATALOG_DATABASE_NAME, INDEX_CATALOG_NAME).c
      c16 == CreatePrimaryIndex(c15, CATALOG_DATABASE_NAME, COLUMN_CATALOG_NAME).c
      c17 == BootCreateIndex(c16, COLUMN_CATALOG_NAME,
                             IndexAttrNames(ColumnCatalogSchema, <<0, 2>>), TRUE)
  IN BootCreateIndex(c17, COLUMN_CATALOG_NAME,
                     IndexAttrNames(ColumnCatalogSchema, <<0>>), FALSE)

\* CreateMetricsCatalog(database_id, table_name): one metrics table, not yet
\* added to the database
MetricsSchema(table_name) ==
  CASE table_name = QUERY_METRIC_NAME -> InitializeQueryMetricsSchema
    [] table_name = TABLE_METRIC_NAME -> InitializeTableMetricsSchema
    [] table_name = DATABASE_METRIC_NAME -> InitializeDatabaseMetricsSchema
    [] table_name = INDEX_METRIC_NAME -> InitializeIndexMetricsSchema

\* one step of CreateMetricsCatalog(): build the table and AddTable it
AddMetricsTable(c, table_name) ==
  LET default_db == GetDatabaseWithName(c, CATALOG_DATABASE_NAME)
      default_db_oid == c.databases_[default_db].oid
      g == GetNextOid(c)
      table == DataTable(default_db_oid, g.oid, MetricsSchema(table_name), table_name, TRUE)
  IN AddTable(Constructed(g.c, table.oid), default_db, table)

CreateMetricsCatalog(c) ==
  AddMetricsTable(AddMetricsTable(AddMetricsTable(AddMetricsTable(c,
    DATABASE_METRIC_NAME), INDEX_METRIC_NAME), TABLE_METRIC_NAME), QUERY_METRIC_NAME)

\* Catalog::Catalog(): the object store; the registry is InitializeFunctions
Catalog == CreateMetricsCatalog(InitializeCatalog)

-----------------------------------------------------------------------------
(* The function registry.                                                  *)

FunctionData(name, argument_types, return_type, func_ptr) ==
  [func_name |-> name, argument_types |-> argument_types,
   return_type |-> return_type, func_ptr |-> func_ptr]

\* PL_ASSERT(functions_.count(name) == 0), then functions_[name] = ...
AddFunction(f, name, argument_types, return_type, func_ptr) ==
  IF name \in DOMAIN f
    THEN [functions_ |-> f, result |-> ABORTED]
    ELSE [functions_ |->
            [n \in DOMAIN f \cup {name} |->
               IF n = name
                 THEN FunctionData(name, argument_types, return_type, func_ptr)
                 ELSE f[n]],
          result |-> RETURNED]

\* the value is read only when the call returned
GetFunction(f, name) ==
  IF name \notin DOMAIN f
    THEN [result |-> THROWN, value |-> FunctionData(name, <<>>, "INVALID", "nullptr")]
    ELSE [result |-> RETURNED, value |-> f[name]]

RemoveFunction_Keeps(f, name) ==
  [functions_ |-> f, result |-> RETURNED]

\* functions_.erase(name)
RemoveFunction(f, name) ==
  [functions_ |-> [n \in DOMAIN f \ {name} |-> f[n]], result |-> RETURNED]

\* the registrations of InitializeFunctions, in the order it makes them
BuiltinFunctions ==
  << FunctionData("ascii", <<"VARCHAR">>, "INTEGER", "StringFunctions::Ascii"),
     FunctionData("chr", <<"INTEGER">>, "VARCHAR", "StringFunctions::Chr"),
     FunctionData("substr", <<"VARCHAR", "INTEGER", "INTEGER">>, "VARCHAR",
                  "StringFunctions::Substr"),
     FunctionData("concat", <<"VARCHAR", "VARCHAR">>, "VARCHAR", "StringFunctions::Concat"),
     FunctionData("char_length", <<"VARCHAR">>, "INTEGER", "StringFunctions::CharLength"),
     FunctionData("octet_length", <<"VARCHAR">>, "INTEGER", "StringFunctions::OctetLength"),
     FunctionData("repeat", <<"VARCHAR", "INTEGER">>, "VARCHAR", "StringFunctions::Repeat"),
     FunctionData("replace", <<"VARCHAR", "VARCHAR", "VARCHAR">>, "VARCHAR",
                  "StringFunctions::Replace"),
     FunctionData("ltrim", <<"VARCHAR", "VARCHAR">>, "VARCHAR", "StringFunctions::LTrim"),
     FunctionData("rtrim", <<"VARCHAR", "VARCHAR">>, "VARCHAR", "StringFunctions::RTrim"),
     FunctionData("btrim", <<"VARCHAR", "VARCHAR">>, "VARCHAR", "StringFunctions::BTrim"),
     FunctionData("extract", <<"INTEGER", "TIMESTAMP">>, "DECIMAL", "DateFunctions::Extract") >>

\* the registry starts empty; a failed assertion ends the registrations
InitializeFunctions ==
  LET b == BuiltinFunctions
      step[i \in 0..Len(b)] ==
        IF i = 0 THEN [functions_ |-> [n \in {} |-> n], result |-> RETURNED]
        ELSE IF step[i - 1].result = ABORTED THEN step[i - 1]
        ELSE AddFunction(step[i - 1].functions_, b[i].func_name, b[i].argument_types,
                         b[i].return_type, b[i].func_ptr)
  IN step[Len(b)]

\* the generator stops once it has handed out MaxNewOids oids after bootstrap
OidLimit == Catalog.oid_ + MaxNewOids

-----------------------------------------------------------------------------
(* The materialization executor.                                           *)

\* the tile group of the tests: columns 0 and 1 in tile 0, columns 2 and 3 in
\* tile 1. A value of a tile is inlined, or a slot of the buffer pool of a
\* tile: column 3 holds std::to_string(10 * i + 3), kept in the pool of tile 1
PopulateTiles(num_rows) ==
  LET rows == 0..(num_rows - 1)
      digit == <<"0", "1", "2", "3", "4", "5", "6", "7", "8", "9">>
      to_string[n \in 0..(10 * num_rows + 3)] ==
        IF n < 10 THEN digit[n + 1] ELSE to_string[n \div 10] \o digit[(n % 10) + 1]
  IN
  [id \in {0, 1} |->
     IF id = 0
       THEN [rows |-> rows,
             value |-> [i \in rows, c \in {0, 1} |->
                          [inlined |-> TRUE, data |-> 10 * i + c, pool |-> -1]],
             pool |-> [k \in {} |-> ""]]
       ELSE [rows |-> rows,
             value |-> [i \in rows, c \in {0, 1} |->
                          IF c = 0 THEN [inlined |-> TRUE, data |-> 10 * i + 2, pool |-> -1]
                                   ELSE [inlined |-> FALSE, data |-> i, pool |-> 1]],
             pool |-> [k \in rows |-> to_string[10 * k + 3]]]]

\* nullptr where a logical tile is expected
NullTile == [columns |-> <<>>, visible |-> {}]

\* LogicalTileFactory::WrapBaseTiles: the columns of the base tiles in order,
\* every row visible
WrapBaseTiles(t, base_tiles) ==
  LET cols[k \in 0..Len(base_tiles)] ==
        IF k = 0 THEN <<>>
        ELSE cols[k - 1] \o <<[tile |-> base_tiles[k], col |-> 0],
                                [tile |-> base_tiles[k], col |-> 1]>>
  IN [columns |-> cols[Len(base_tiles)], visible |-> t[base_tiles[1]].rows]

\* LogicalTile::GetValue: the value read through the column map, an
\* uninlined one from the pool it points into
GetValue(t, tile, row, column) ==
  LET at == tile.columns[column + 1]
      v == t[at.tile].value[row, at.col]
  IN IF v.inlined THEN <<"inlined", v.data, "">>
                  ELSE <<"uninlined", 0, t[v.pool].pool[v.data]>>

\* the storage of the base tiles is written over or handed back
ReleaseStorage(t, base_tiles) ==
  [id \in DOMAIN t |->
     IF id \in base_tiles
       THEN [t[id] EXCEPT !.pool = [k \in DOMAIN t[id].pool |-> "released"]]
       ELSE t[id]]

CopyValue_Aliases(v, dest_tile, slot) == v

\* step 3: an uninlined value is copied into the pool of the destination tile
CopyValue(v, dest_tile, slot) ==
  IF v.inlined THEN v ELSE [inlined |-> FALSE, data |-> slot, pool |-> dest_tile]

DestinationTile_PerGroup(t, source_tile, old_col) ==
  Cardinality(DOMAIN t) + source_tile.columns[old_col + 1].tile
    - MinOf({source_tile.columns[k].tile : k \in 1..Len(source_tile.columns)})

\* the physical tile an old column is materialized into: one new tile for
\* all of them
DestinationTile(t, source_tile, old_col) == Cardinality(DOMAIN t)

VisibleRows_All(t, source_tile) == t[source_tile.columns[1].tile].rows

\* the rows that are copied
VisibleRows(t, source_tile) == source_tile.visible

\* steps 1 to 4 for one input logical tile: the tiles after it and the
\* logical tile over the new ones
Materialize(t, old_to_new_cols, source_tile) ==
  LET olds == DOMAIN old_to_new_cols
      width == Cardinality(olds)
      rows == VisibleRows(t, source_tile)
      dest(o) == DestinationTile(t, source_tile, o)
      old(n) == CHOOSE o \in olds : old_to_new_cols[o] = n
      from(r, n) ==
        t[source_tile.columns[old(n) + 1].tile].value[r, source_tile.columns[old(n) + 1].col]
      made == {dest(o) : o \in olds}
      news(id) == {old_to_new_cols[o] : o \in {k \in olds : dest(k) = id}}
      NewTile(id) ==
        [rows |-> rows,
         value |-> [r \in rows, n \in news(id) |-> CopyValue(from(r, n), id, r * width + n)],
         pool |-> [k \in UNION {{r * width + n : n \in {m \in news(id) : ~from(r, m).inlined}} :
                                  r \in rows}
                     |-> LET v == from(k \div width, k % width) IN t[v.pool].pool[v.data]]]
  IN [tiles |-> [id \in DOMAIN t \cup made |-> IF id \in made THEN NewTile(id) ELSE t[id]],
      result |-> [columns |-> [k \in 1..width |-> [tile |-> dest(old(k - 1)), col |-> k - 1]],
                  visible |-> rows]]

\* what the child returns on its next call: the next tile it was told to
\* return, and nullptr past the last
ChildReturns(c, k) == IF k <= Len(c.script) THEN c.script[k] ELSE NullTile

GetNextTile_PullsAgain(e, c, t) ==
  LET source_tile == ChildReturns(c, c.calls + 1) IN
  IF source_tile = NullTile
    THEN [executor |-> [e EXCEPT !.state = "EXHAUSTED"],
          child |-> [c EXCEPT !.calls = @ + 1], tiles |-> t, result |-> NullTile]
    ELSE LET m == Materialize(t, e.node, source_tile) IN
         [executor |-> [e EXCEPT !.state = "PRODUCING"],
          child |-> [c EXCEPT !.calls = @ + 1], tiles |-> m.tiles, result |-> m.result]

\* GetNextTile: one tile is pulled from the child unless the child has
\* reported the end of its stream
GetNextTile(e, c, t) ==
  LET source_tile == ChildReturns(c, c.calls + 1) IN
  IF e.state = "EXHAUSTED"
    THEN [executor |-> e, child |-> c, tiles |-> t, result |-> NullTile]
  ELSE IF source_tile = NullTile
    THEN [executor |-> [e EXCEPT !.state = "EXHAUSTED"],
          child |-> [c EXCEPT !.calls = @ + 1], tiles |-> t, result |-> NullTile]
    ELSE LET m == Materialize(t, e.node, source_tile) IN
         [executor |-> [e EXCEPT !.state = "PRODUCING"],
          child |-> [c EXCEPT !.calls = @ + 1], tiles |-> m.tiles, result |-> m.result]

-----------------------------------------------------------------------------
(* The state machine.                                                      *)

State ==
  [databases_ |-> databases_, pg_database |-> pg_database, pg_table |-> pg_table,
   pg_attribute |-> pg_attribute, pg_index |-> pg_index, oid_ |-> oid_,
   created |-> created]

\* a call returned r: the catalog takes the state it left, and a dereferenced
\* null pointer ends the process
Apply(op, r) ==
  /\ ~fault
  /\ r.c.oid_ <= OidLimit
  /\ databases_' = r.c.databases_
  /\ pg_database' = r.c.pg_database
  /\ pg_table' = r.c.pg_table
  /\ pg_attribute' = r.c.pg_attribute
  /\ pg_index' = r.c.pg_index
  /\ oid_' = r.c.oid_
  /\ created' = r.c.created
  /\ fault' = (r.result = FAULT)
  /\ last' = [op |-> op, result |-> r.result]
  /\ UNCHANGED <<functions_, calls, executor, child, tiles, result, returns,
                 threads, catalog_mutex, reader, dropper, destroyed>>

\* the inputs of the calls
UserDatabaseNames == {"a"}
DatabaseNames == UserDatabaseNames \cup {CATALOG_DATABASE_NAME}
TableNames == {"t", "u"}
Schemas ==
  { <<Column("x", TRUE), Column("y", FALSE), Column("z", TRUE)>>,
    <<Column("x", FALSE), Column("y", FALSE)>> }
IndexRequests ==
  { [index_attr |-> <<"x">>, unique_keys |-> TRUE, index_type |-> "BWTREE"],
    [index_attr |-> <<"y", "x">>, unique_keys |-> FALSE, index_type |-> "HASH"],
    [index_attr |-> <<"x", "nonexistent">>, unique_keys |-> TRUE, index_type |-> "HASH"] }
IndexNames == {"i"}

\* the oids the calls are given: those of the live databases, those of the
\* tables and indexes that are not catalog-owned, live or in a tuple, and one
\* that names nothing. The system database and its catalog tables are never
\* dropped: the catalog itself is stored in them.
LiveDatabaseOids == {databases_[i].oid : i \in 1..Len(databases_)}
UserDatabaseOidArgs == (LiveDatabaseOids \ {CATALOG_DATABASE_OID}) \cup {INVALID_OID}
DatabaseOidArgs == LiveDatabaseOids \cup {INVALID_OID}
CatalogOwnedOids ==
  {databases_[1].tables[i].oid :
     i \in {j \in 1..Len(databases_[1].tables) : databases_[1].tables[j].is_catalog}}
TableOidArgs ==
  ({t.table_oid : t \in pg_table} \ CatalogOwnedOids) \cup {INVALID_OID}
IndexOidArgs ==
  {t.index_oid : t \in {u \in pg_index : u.table_oid \notin CatalogOwnedOids}}
    \cup {INVALID_OID}

Init ==
  /\ databases_ = Catalog.databases_
  /\ pg_database = Catalog.pg_database
  /\ pg_table = Catalog.pg_table
  /\ pg_attribute = Catalog.pg_attribute
  /\ pg_index = Catalog.pg_index
  /\ oid_ = Catalog.oid_
  /\ created = Catalog.created
  /\ fault = FALSE
  /\ last = [op |-> "Catalog", result |-> SUCCESS]
  /\ functions_ = InitializeFunctions.functions_
  /\ calls = <<>>
  /\ executor = [state |-> "NONE", node |-> <<>>]
  /\ child = [script |-> <<>>, calls |-> 0]
  /\ tiles = PopulateTiles(TupleCount)
  /\ result = NullTile
  /\ returns = <<>>
  /\ threads = [th \in 1..NumThreads |->
                  [pc |-> "idle", database_name |-> "", database_oid |-> INVALID_OID]]
  /\ catalog_mutex = 0
  /\ reader = [pc |-> "idle", op |-> "", db_oid |-> INVALID_OID, it |-> 0, end |-> 0,
               database |-> 0, read_destroyed |-> FALSE, dangling |-> FALSE]
  /\ dropper = [pc |-> "idle", database_oid |-> INVALID_OID]
  /\ destroyed = {}

DoCreateDatabase ==
  \E n \in UserDatabaseNames :
    Apply("CreateDatabase", CreateDatabase(State, n))

DoCreateTable ==
  \E n \in DatabaseNames, t \in TableNames, s \in Schemas, uninit \in ResultType :
    Apply("CreateTable", CreateTable(State, n, t, s, uninit))

DoCreatePrimaryIndex ==
  \E n \in DatabaseNames, t \in TableNames :
    Apply("CreatePrimaryIndex", CreatePrimaryIndex(State, n, t))

DoCreateIndex ==
  \E n \in DatabaseNames, t \in TableNames, q \in IndexRequests, i \in IndexNames :
    \E table_oid \in GetTableOidChoices(State, t) :
      Apply("CreateIndex",
            CreateIndex(State, n, t, q.index_attr, i, q.unique_keys, q.index_type, table_oid))

DoDropIndex ==
  \E d \in DatabaseOidArgs, i \in IndexOidArgs :
    Apply("DropIndex", DropIndex(State, d, i))

DoDropDatabaseWithName ==
  \E n \in UserDatabaseNames :
    Apply("DropDatabaseWithName", DropDatabaseWithName(State, n))

DoDropDatabaseWithOid ==
  \E d \in UserDatabaseOidArgs :
    Apply("DropDatabaseWithOid", DropDatabaseWithOid(State, d))

DoDropTable ==
  \E n \in DatabaseNames, t \in TableNames :
    Apply("DropTable", DropTable(State, n, t))

DoDropTableWithOid ==
  \E d \in DatabaseOidArgs, t \in TableOidArgs :
    Apply("DropTableWithOid", DropTableWithOid(State, d, t))

Next ==
  \/ DoCreateDatabase
  \/ DoCreateTable
  \/ DoCreatePrimaryIndex
  \/ DoCreateIndex
  \/ DoDropIndex
  \/ DoDropDatabaseWithName
  \/ DoDropDatabaseWithOid
  \/ DoDropTable
  \/ DoDropTableWithOid

Spec == Init /\ [][Next]_vars

\* the runs in which every call returns SUCCESS. DropIndex is no part of them:
\* it returns FAILURE or dereferences a null pointer whatever it is given.
NextSuccess ==
  \/ DoCreateDatabase /\ last'.result = SUCCESS
  \/ DoCreateTable /\ last'.result = SUCCESS
  \/ DoCreatePrimaryIndex /\ last'.result = SUCCESS
  \/ DoCreateIndex /\ last'.result = SUCCESS
  \/ DoDropDatabaseWithName /\ last'.result = SUCCESS
  \/ DoDropDatabaseWithOid /\ last'.result = SUCCESS
  \/ DoDropTable /\ last'.result = SUCCESS
  \/ DoDropTableWithOid /\ last'.result = SUCCESS

SpecSuccess == Init /\ [][NextSuccess]_vars

\* the runs in which the value CreateTable returns without having assigned it
\* (line 201, no primary key) reads SUCCESS
DoCreateTableReadsSuccess ==
  \E n \in DatabaseNames, t \in TableNames, s \in Schemas :
    Apply("CreateTable", CreateTable(State, n, t, s, SUCCESS))

NextReadsSuccess ==
  \/ DoCreateDatabase
  \/ DoCreateTableReadsSuccess
  \/ DoCreatePrimaryIndex
  \/ DoCreateIndex
  \/ DoDropIndex
  \/ DoDropDatabaseWithName
  \/ DoDropDatabaseWithOid
  \/ DoDropTable
  \/ DoDropTableWithOid

SpecReadsSuccess == Init /\ [][NextReadsSuccess]_vars

\* the runs that create tables from schemas of any column names: nothing in
\* CreateTable looks at the names, two columns may carry the same one
AnySchemas ==
  Schemas \cup { <<Column("x", FALSE), Column("x", FALSE)>> }

DoCreateTableAnySchema ==
  \E n \in DatabaseNames, t \in TableNames, s \in AnySchemas, uninit \in ResultType :
    Apply("CreateTable", CreateTable(State, n, t, s, uninit))

NextAnySchema ==
  \/ DoCreateDatabase
  \/ DoCreateTableAnySchema
  \/ DoCreateIndex

SpecAnySchema == Init /\ [][NextAnySchema]_vars

\* the calls of the function registry: a name InitializeFunctions registers
\* and two it does not, each registered with one of two implementations
FunctionNames == {"ascii", "f", "g"}

catalogVars == <<databases_, pg_database, pg_table, pg_attribute, pg_index, oid_, created>>

\* a call of the registry ended as r says; an AddFunction or RemoveFunction
\* joins the history
ApplyFunction(op, call, r) ==
  /\ ~fault
  /\ Len(calls) + Len(call) <= MaxCalls
  /\ functions_' = r.functions_
  /\ calls' = calls \o call
  /\ fault' = (r.result = ABORTED)
  /\ last' = [op |-> op, result |-> r.result]
  /\ UNCHANGED <<catalogVars, executor, child, tiles, result, returns,
                 threads, catalog_mutex, reader, dropper, destroyed>>

DoAddFunction ==
  \E n \in FunctionNames, p \in {"p", "q"} :
    ApplyFunction("AddFunction",
                  <<[op |-> "AddFunction",
                     data |-> FunctionData(n, <<"INTEGER">>, "INTEGER", p)]>>,
                  AddFunction(functions_, n, <<"INTEGER">>, "INTEGER", p))

DoGetFunction ==
  \E n \in FunctionNames :
    ApplyFunction("GetFunction", <<>>,
                  [functions_ |-> functions_, result |-> GetFunction(functions_, n).result])

DoRemoveFunction ==
  \E n \in FunctionNames :
    ApplyFunction("RemoveFunction",
                  <<[op |-> "RemoveFunction", data |-> FunctionData(n, <<>>, "INVALID", "nullptr")]>>,
                  RemoveFunction(functions_, n))

NextFunctions ==
  \/ DoAddFunction
  \/ DoGetFunction
  \/ DoRemoveFunction

SpecFunctions == Init /\ [][NextFunctions]_vars

\* the plan nodes and the logical tiles they are run on: the two of the tests,
\* and a plan that takes both its columns from the second of two base tiles
MaterializationTests ==
  { [base_tiles |-> <<0>>, old_to_new_cols |-> (0 :> 0) @@ (1 :> 1)],
    [base_tiles |-> <<0, 1>>, old_to_new_cols |-> (3 :> 0) @@ (1 :> 1) @@ (0 :> 2)],
    [base_tiles |-> <<0, 1>>, old_to_new_cols |-> (2 :> 1) @@ (3 :> 0)] }

\* MaterializationExecutor executor(&node); executor.AddChild(&child_executor),
\* the child told what to return: nullptr, or the base tiles wrapped with any
\* set of their rows visible
DoMaterializationExecutor ==
  /\ executor.state = "NONE"
  /\ \E test \in MaterializationTests, n \in 0..MaxChildTiles :
       \E script \in [1..n ->
                        {[WrapBaseTiles(tiles, test.base_tiles) EXCEPT !.visible = v] :
                           v \in SUBSET (0..(TupleCount - 1))} \cup {NullTile}] :
         /\ executor' = [state |-> "UNINITIALIZED", node |-> test.old_to_new_cols]
         /\ child' = [script |-> script, calls |-> 0]
  /\ last' = [op |-> "MaterializationExecutor", result |-> SUCCESS]
  /\ UNCHANGED <<catalogVars, fault, functions_, calls, tiles, result, returns,
                 threads, catalog_mutex, reader, dropper, destroyed>>

\* Init forwards to the child and fails if the child fails
DoInit ==
  /\ executor.state = "UNINITIALIZED"
  /\ \E ok \in BOOLEAN :
       /\ executor' = [executor EXCEPT !.state = IF ok THEN "READY" ELSE @]
       /\ last' = [op |-> "Init", result |-> IF ok THEN SUCCESS ELSE FAILURE]
  /\ UNCHANGED <<catalogVars, fault, functions_, calls, child, tiles, result, returns,
                 threads, catalog_mutex, reader, dropper, destroyed>>

DoGetNextTile ==
  /\ executor.state \in {"READY", "PRODUCING", "EXHAUSTED"}
  /\ Len(returns) < MaxChildTiles + 2
  /\ LET r == GetNextTile(executor, child, tiles) IN
       /\ executor' = r.executor
       /\ child' = r.child
       /\ tiles' = r.tiles
       /\ result' = r.result
       /\ returns' = Append(returns, [tile |-> r.result # NullTile, calls |-> r.child.calls])
       /\ last' = [op |-> "GetNextTile",
                   result |-> IF r.result # NullTile THEN "tile" ELSE "nullptr"]
  /\ UNCHANGED <<catalogVars, fault, functions_, calls, threads, catalog_mutex,
                 reader, dropper, destroyed>>

\* the owner of the tile group writes over its storage or frees it, once the
\* child has returned every tile made of it
DoReleaseStorage ==
  /\ executor.state \in {"PRODUCING", "EXHAUSTED"}
  /\ \A k \in (child.calls + 1)..Len(child.script) : child.script[k] = NullTile
  /\ tiles' = ReleaseStorage(tiles, {0, 1})
  /\ last' = [op |-> "ReleaseStorage", result |-> SUCCESS]
  /\ UNCHANGED <<catalogVars, fault, functions_, calls, executor, child, result, returns,
                 threads, catalog_mutex, reader, dropper, destroyed>>

NextMaterialization ==
  \/ DoMaterializationExecutor
  \/ DoInit
  \/ DoGetNextTile
  \/ DoReleaseStorage

SpecMaterialization == Init /\ [][NextMaterialization]_vars

\* CreateDatabase called by several threads at once, each step of a call
\* taken when its thread is scheduled. Lines 112-118: the name is looked up
\* in the database catalog
Check(th) ==
  /\ threads[th].pc = "idle"
  /\ \E database_name \in {"a", "b"} :
       IF GetDatabaseOid(State, database_name) # INVALID_OID
         THEN /\ threads' = [threads EXCEPT ![th] =
                              [pc |-> FAILURE, database_name |-> database_name,
                               database_oid |-> GetDatabaseOid(State, database_name)]]
              /\ last' = [op |-> "CreateDatabase", result |-> FAILURE]
         ELSE /\ threads' = [threads EXCEPT ![th] =
                              [pc |-> "new", database_name |-> database_name,
                               database_oid |-> INVALID_OID]]
              /\ last' = last
  /\ UNCHANGED <<catalogVars, catalog_mutex>>

\* lines 121-126: the oid is drawn from the generator, which is atomic, and
\* the Database is constructed
NewDatabase(th) ==
  /\ threads[th].pc = "new"
  /\ LET g == GetNextOid(State) IN
       /\ oid_' = g.c.oid_
       /\ created' = Append(created, g.oid)
       /\ threads' = [threads EXCEPT ![th].pc = "lock", ![th].database_oid = g.oid]
  /\ UNCHANGED <<databases_, pg_database, pg_table, pg_attribute, pg_index, last, catalog_mutex>>

\* lines 129-130: catalog_mutex is taken and the database appended
PushBack(th) ==
  /\ threads[th].pc = "lock"
  /\ catalog_mutex = 0
  /\ catalog_mutex' = th
  /\ databases_' =
       Append(databases_, Database(threads[th].database_oid, threads[th].database_name))
  /\ threads' = [threads EXCEPT ![th].pc = "unlock"]
  /\ UNCHANGED <<pg_database, pg_table, pg_attribute, pg_index, oid_, created, last>>

Unlock_AfterInsert(th) ==
  /\ threads[th].pc = "unlock"
  /\ catalog_mutex' = 0
  /\ pg_database' =
       InsertDatabase(State, threads[th].database_oid, threads[th].database_name).pg_database
  /\ threads' = [threads EXCEPT ![th].pc = "insert"]
  /\ UNCHANGED <<databases_, pg_table, pg_attribute, pg_index, oid_, created, last>>

\* line 131: the lock_guard goes out of scope
Unlock(th) ==
  /\ threads[th].pc = "unlock"
  /\ catalog_mutex' = 0
  /\ threads' = [threads EXCEPT ![th].pc = "insert"]
  /\ UNCHANGED <<catalogVars, last>>

\* lines 134-137: the tuple is inserted and the call returns SUCCESS
InsertTuple(th) ==
  /\ threads[th].pc = "insert"
  /\ pg_database' =
       InsertDatabase(State, threads[th].database_oid, threads[th].database_name).pg_database
  /\ threads' = [threads EXCEPT ![th].pc = SUCCESS]
  /\ last' = [op |-> "CreateDatabase", result |-> SUCCESS]
  /\ UNCHANGED <<databases_, pg_table, pg_attribute, pg_index, oid_, created, catalog_mutex>>

NextThreads ==
  /\ \E th \in 1..NumThreads :
       \/ Check(th)
       \/ NewDatabase(th)
       \/ PushBack(th)
       \/ Unlock(th)
       \/ InsertTuple(th)
  /\ UNCHANGED <<fault, functions_, calls, executor, child, tiles, result, returns,
                 reader, dropper, destroyed>>

SpecThreads == Init /\ [][NextThreads]_vars

\* a lookup on one thread while another calls DropDatabaseWithOid. The
\* lookup takes no lock: each of its steps is taken when its thread is
\* scheduled. Lines 550-567: the oid is resolved and the loop over databases_
\* begins, its end fixed
Begin ==
  /\ reader.pc = "idle"
  /\ \E op \in {"GetDatabaseWithOid", "HasDatabase", "GetDatabaseWithName"} :
       \E db_oid \in IF op = "GetDatabaseWithName"
                       THEN {GetDatabaseOid(State, n) : n \in {"a", "b", CATALOG_DATABASE_NAME}}
                       ELSE DatabaseOidArgs :
         reader' = [pc |-> "visit", op |-> op, db_oid |-> db_oid, it |-> 1,
                    end |-> Len(databases_), database |-> 0, read_destroyed |-> FALSE,
                    dangling |-> FALSE]
  /\ UNCHANGED <<catalogVars, catalog_mutex, dropper, destroyed>>
  /\ UNCHANGED <<fault, last, functions_, calls, executor, child, tiles, result, returns,
                 threads>>

\* lines 556-558: the pointer at the iterator is read and GetOid called on
\* it. A slot past the end of the list as it is now holds a pointer to any
\* database there is or was, and GetOid of a deleted object returns anything
Visit ==
  /\ reader.pc = "visit"
  /\ IF reader.it > reader.end
       THEN reader' = [reader EXCEPT !.pc = "returned", !.database = 0]
       ELSE \E p \in IF reader.it <= Len(databases_)
                       THEN {databases_[reader.it].oid}
                       ELSE LiveDatabaseOids \cup destroyed :
              \E match \in IF p \in destroyed THEN BOOLEAN ELSE {p = reader.db_oid} :
                reader' = [reader EXCEPT !.database = p,
                                         !.read_destroyed = @ \/ p \in destroyed,
                                         !.pc = IF match THEN "return" ELSE "visit",
                                         !.it = IF match THEN @ ELSE @ + 1]
  /\ UNCHANGED <<catalogVars, catalog_mutex, dropper, destroyed>>
  /\ UNCHANGED <<fault, last, functions_, calls, executor, child, tiles, result, returns,
                 threads>>

\* line 557: the pointer is returned; dangling records whether, at this
\* moment, it is the pointer of a database deleted or no longer in the list
Return ==
  /\ reader.pc = "return"
  /\ reader' = [reader EXCEPT !.pc = "returned",
                              !.dangling = \/ reader.database \in destroyed
                                           \/ reader.database \notin LiveDatabaseOids]
  /\ UNCHANGED <<catalogVars, catalog_mutex, dropper, destroyed>>
  /\ UNCHANGED <<fault, last, functions_, calls, executor, child, tiles, result, returns,
                 threads>>

\* lines 423-434 of DropDatabaseWithOid: the tables are dropped and the tuple
\* of the database deleted
DropTuple ==
  /\ dropper.pc = "idle"
  /\ \E database_oid \in UserDatabaseOidArgs :
       LET r == DropTablesOf(State, database_oid, GetTableOids(State, database_oid))
           c1 == DeleteDatabase(r.c, database_oid)
       IN /\ r.result # FAULT
          /\ databases_' = c1.databases_
          /\ pg_database' = c1.pg_database
          /\ pg_table' = c1.pg_table
          /\ pg_attribute' = c1.pg_attribute
          /\ pg_index' = c1.pg_index
          /\ dropper' = [pc |-> IF HasDatabaseTuple(r.c, database_oid) THEN "lock" ELSE FAILURE,
                          database_oid |-> database_oid]
  /\ UNCHANGED <<oid_, created, catalog_mutex, reader, destroyed>>
  /\ UNCHANGED <<fault, last, functions_, calls, executor, child, tiles, result, returns,
                 threads>>

\* lines 439-443: catalog_mutex is taken, the database found and deleted
Delete ==
  /\ dropper.pc = "lock"
  /\ catalog_mutex = 0
  /\ IF GetDatabaseWithOid(State, dropper.database_oid) = 0
       THEN /\ dropper' = [dropper EXCEPT !.pc = FAILURE]
            /\ UNCHANGED <<catalog_mutex, destroyed>>
       ELSE /\ dropper' = [dropper EXCEPT !.pc = "erase"]
            /\ catalog_mutex' = -1
            /\ destroyed' = destroyed \cup {dropper.database_oid}
  /\ UNCHANGED <<catalogVars, reader>>
  /\ UNCHANGED <<fault, last, functions_, calls, executor, child, tiles, result, returns,
                 threads>>

\* lines 444-453: the pointer is erased from the list and the call returns
Erase ==
  /\ dropper.pc = "erase"
  /\ databases_' = RemoveAt(databases_, GetDatabaseWithOid(State, dropper.database_oid))
  /\ catalog_mutex' = 0
  /\ dropper' = [dropper EXCEPT !.pc = SUCCESS]
  /\ UNCHANGED <<pg_database, pg_table, pg_attribute, pg_index, oid_, created, reader, destroyed>>
  /\ UNCHANGED <<fault, last, functions_, calls, executor, child, tiles, result, returns,
                 threads>>

\* the databases are created before the two threads start
NextLookups ==
  \/ /\ reader.pc = "idle" /\ dropper.pc = "idle"
     /\ \E n \in {"a", "b"} : Apply("CreateDatabase", CreateDatabase(State, n))
  \/ Begin
  \/ Visit
  \/ Return
  \/ DropTuple
  \/ Delete
  \/ Erase

SpecLookups == Init /\ [][NextLookups]_vars

-----------------------------------------------------------------------------
(* Views of the state the properties are stated on.                        *)

LiveDatabaseOidsOf(c) == {c.databases_[i].oid : i \in 1..Len(c.databases_)}
DatabaseTupleOids(c) == {t.database_oid : t \in c.pg_database}

\* the live tables and the live indexes, over all databases
LiveTables(c) ==
  UNION {{c.databases_[i].tables[j] : j \in 1..Len(c.databases_[i].tables)} :
           i \in 1..Len(c.databases_)}
LiveIndexes(c) ==
  UNION {{t.indexes[k] : k \in 1..Len(t.indexes)} : t \in LiveTables(c)}
LiveTableOids(c) == {t.oid : t \in LiveTables(c)}
TableTupleOids(c) == {t.table_oid : t \in c.pg_table}
LiveIndexOids(c) == {i.oid : i \in LiveIndexes(c)}
IndexTupleOids(c) == {t.index_oid : t \in c.pg_index}

\* the live databases and the database tuples that carry a name
LiveDatabasesNamed(c, n) == {i \in 1..Len(c.databases_) : c.databases_[i].name = n}
DatabaseTuplesNamed(c, n) == {t \in c.pg_database : t.database_name = n}

\* the live databases a name resolves to: those with the oid of a tuple of that name
DatabasesKnownAs(c, n) ==
  {i \in 1..Len(c.databases_) :
     \E t \in c.pg_database : t.database_name = n /\ t.database_oid = c.databases_[i].oid}

HasPrimaryColumn(columns) == \E i \in 1..Len(columns) : columns[i].is_primary

-----------------------------------------------------------------------------
(* The properties.                                                         *)

\* C1: in every run whose calls all returned SUCCESS (SpecSuccess), the oids of
\* the live Database objects are the oids of the database-catalog tuples.
C1_DatabaseDualBookkeeping ==
  LiveDatabaseOidsOf(State) = DatabaseTupleOids(State)

\* C2: in every run whose calls all returned SUCCESS, from the state after
\* bootstrap on, the oids of the live tables of all databases are the oids of
\* the table-catalog tuples.
C2_TableDualBookkeeping ==
  LiveTableOids(State) = TableTupleOids(State)

\* C3: in every run whose calls all returned SUCCESS, the oids of the indexes
\* attached to live tables are the oids of the index-catalog tuples.
C3_IndexDualBookkeeping ==
  LiveIndexOids(State) = IndexTupleOids(State)

\* C4: in every reachable state, when CreateDatabase(n) returns SUCCESS and is
\* called again at once with the same name, the second call returns FAILURE and
\* exactly one live database and exactly one database tuple carry the name.
C4_NameUniqueness ==
  \A n \in UserDatabaseNames :
    LET r1 == CreateDatabase(State, n) IN
    r1.result = SUCCESS =>
      LET r2 == CreateDatabase(r1.c, n) IN
      /\ r2.result = FAILURE
      /\ Cardinality(LiveDatabasesNamed(r2.c, n)) = 1
      /\ Cardinality(DatabaseTuplesNamed(r2.c, n)) = 1

C6_FailureChangesNothing ==
  [][last'.result = FAILURE =>
       UNCHANGED <<databases_, pg_database, pg_table, pg_attribute, pg_index>>]_vars

\* C7: in every reachable state, CreateDatabase(n) with no database tuple of
\* that name returns SUCCESS; afterwards GetDatabaseWithName(n) is the Database
\* object just appended to the list, its name is n, its oid is the oid the
\* generator handed out, which no database had and which the new tuple of name
\* n carries, and GetDatabaseCount has grown by one.
C7_CreateDatabaseCreates ==
  \A n \in UserDatabaseNames :
    DatabaseTuplesNamed(State, n) = {} =>
      LET r == CreateDatabase(State, n)
          d == GetDatabaseWithName(r.c, n)
      IN /\ r.result = SUCCESS
         /\ d = Len(databases_) + 1
         /\ d = GetDatabaseCount(r.c)
         /\ r.c.databases_[d].name = n
         /\ r.c.databases_[d].oid = oid_
         /\ oid_ \notin LiveDatabaseOidsOf(State) \cup DatabaseTupleOids(State)
         /\ r.c.pg_database \ pg_database =
              {[database_oid |-> oid_, database_name |-> n]}
         /\ SubSeq(r.c.databases_, 1, Len(databases_)) = databases_

\* C7 witness: CreateDatabase has just returned SUCCESS, and the name resolves
\* to the last database of the list, whose oid is the last one handed out.
C7_Witness ==
  /\ last = [op |-> "CreateDatabase", result |-> SUCCESS]
  /\ \E n \in UserDatabaseNames :
       /\ GetDatabaseWithName(State, n) = Len(databases_)
       /\ databases_[Len(databases_)].oid = oid_ - 1

\* C8: in every reachable state, CreateTable returns FAILURE and changes
\* nothing (no table, no table tuple, no column tuple) when the database name
\* resolves to no live database or when the database it resolves to holds a
\* table of that name.
C8_CreateTableRejects ==
  \A n \in DatabaseNames \cup {"nodb"}, t \in TableNames, s \in Schemas, u \in ResultType :
    (\/ DatabasesKnownAs(State, n) = {}
     \/ \E i \in DatabasesKnownAs(State, n) :
          \E j \in 1..Len(databases_[i].tables) : databases_[i].tables[j].name = t)
      => CreateTable(State, n, t, s, u) = Fail(State)

\* C8 witness: CreateTable has just returned FAILURE in a state with user
\* tables all of which have a primary column: the call created no table (a
\* table it created without a primary column would be there), so it was
\* rejected.
C8_Witness ==
  /\ last = [op |-> "CreateTable", result |-> FAILURE]
  /\ \E t \in LiveTables(State) : ~t.is_catalog
  /\ \A t \in LiveTables(State) : ~t.is_catalog => HasPrimaryColumn(t.columns)

\* C9: in every reachable state, a CreateTable call that passes its checks
\* returns SUCCESS when the schema has no primary column, and the result of
\* CreatePrimaryIndex (SUCCESS exactly when the new table got its primary-key
\* index) when it has one.
C9_CreateTableResult ==
  \A n \in DatabaseNames, t \in TableNames, s \in Schemas, u \in ResultType :
    (/\ DatabasesKnownAs(State, n) # {}
     /\ \A i \in DatabasesKnownAs(State, n) :
          \A j \in 1..Len(databases_[i].tables) : databases_[i].tables[j].name # t)
      => LET r == CreateTable(State, n, t, s, u)
             new == {x \in LiveTables(r.c) : x.oid = oid_}
         IN IF ~HasPrimaryColumn(s)
            THEN r.result = SUCCESS
            ELSE r.result = SUCCESS <=>
                   \E x \in new : \E k \in 1..Len(x.indexes) :
                     x.indexes[k].constraint = "PRIMARY_KEY"

\* the upper-cased table names
UpperCased(table_name) ==
  CASE table_name = "t" -> "T"
    [] table_name = "u" -> "U"
    [] table_name = DATABASE_CATALOG_NAME -> "PG_DATABASE"
    [] table_name = TABLE_CATALOG_NAME -> "PG_TABLE"
    [] table_name = INDEX_CATALOG_NAME -> "PG_INDEX"
    [] table_name = COLUMN_CATALOG_NAME -> "PG_ATTRIBUTE"

\* C10: every PRIMARY_KEY index of a live table (CreatePrimaryIndex built it)
\* has as key attributes exactly the ordinals of the table's primary columns,
\* in ascending order, is unique, and is named the upper-cased table name
\* followed by _PKEY.
C10_PrimaryIndexKey ==
  \A t \in LiveTables(State) : \A k \in 1..Len(t.indexes) :
    LET index == t.indexes[k] IN
    index.constraint = "PRIMARY_KEY" =>
      /\ \A a, b \in 1..Len(index.key_attrs) :
           a < b => index.key_attrs[a] < index.key_attrs[b]
      /\ {index.key_attrs[a] : a \in 1..Len(index.key_attrs)} =
           {o \in 0..(Len(t.columns) - 1) : t.columns[o + 1].is_primary}
      /\ index.unique_keys = TRUE
      /\ index.name = UpperCased(t.name) \o "_PKEY"
      /\ index.table_oid = t.oid

\* C10 witness: a table with columns [x:PRIMARY, y, z:PRIMARY] has the
\* primary-key index with key ordinals 0 then 2, after CreatePrimaryIndex or
\* the CreateTable that calls it returned SUCCESS.
C10_Witness ==
  /\ last.op \in {"CreateTable", "CreatePrimaryIndex"}
  /\ last.result = SUCCESS
  /\ \E t \in LiveTables(State) : \E k \in 1..Len(t.indexes) :
       /\ [i \in 1..Len(t.columns) |-> t.columns[i].is_primary] = <<TRUE, FALSE, TRUE>>
       /\ t.indexes[k].constraint = "PRIMARY_KEY"
       /\ t.indexes[k].key_attrs = <<0, 2>>
       /\ t.indexes[k].name = "T_PKEY"

\* C11: in every reachable state every live table has at most one index whose
\* constraint kind is PRIMARY_KEY.
C11_AtMostOnePrimaryKey ==
  \A t \in LiveTables(State) :
    Cardinality({k \in 1..Len(t.indexes) : t.indexes[k].constraint = "PRIMARY_KEY"}) <= 1

\* the names of the columns of a table
ColumnNames(columns) == {columns[i].column_name : i \in 1..Len(columns)}

\* C12: in every reachable state, CreateIndex called with a list of column
\* names of which at least one is not the name of a column of the table it
\* resolves returns FAILURE and changes nothing: no index is attached and no
\* index-catalog tuple is inserted.
C12_AllOrNothing ==
  \A n \in DatabaseNames, t \in TableNames, q \in IndexRequests, i \in IndexNames :
    \A table_oid \in GetTableOidChoices(State, t) :
      LET d == GetDatabaseWithName(State, n)
          tb == IF d = 0 THEN 0 ELSE DbGetTableWithOid(databases_[d], table_oid)
      IN (/\ tb # 0
          /\ \E a \in 1..Len(q.index_attr) :
               q.index_attr[a] \notin ColumnNames(databases_[d].tables[tb].columns))
         => CreateIndex(State, n, t, q.index_attr, i, q.unique_keys, q.index_type, table_oid)
              = Fail(State)

\* C13: in every reachable state, an index created by a CreateIndex call that
\* returns SUCCESS has its uniqueness flag equal to the unique_keys argument,
\* has the requested index type, and has the constraint kind UNIQUE when
\* unique_keys is true and DEFAULT when it is false.
C13_IndexAsRequested ==
  \A n \in DatabaseNames, t \in TableNames, q \in IndexRequests, i \in IndexNames :
    \A table_oid \in GetTableOidChoices(State, t) :
      LET r == CreateIndex(State, n, t, q.index_attr, i, q.unique_keys, q.index_type, table_oid)
      IN r.result = SUCCESS =>
           \E index \in LiveIndexes(r.c) :
             /\ index.oid = oid_
             /\ index.unique_keys = q.unique_keys
             /\ index.index_type = q.index_type
             /\ index.constraint = IF q.unique_keys THEN "UNIQUE" ELSE "DEFAULT"

\* the index-catalog tuples of the indexes CreateIndex attached to a table of
\* the database at position d, the catalog's own tables left aside
IndexTuplesOf(c, d) ==
  {u \in c.pg_index :
     /\ u.database_oid = c.databases_[d].oid
     /\ u.table_oid \notin CatalogOwnedOids
     /\ \E tb \in 1..Len(c.databases_[d].tables) :
          /\ c.databases_[d].tables[tb].oid = u.table_oid
          /\ \E k \in 1..Len(c.databases_[d].tables[tb].indexes) :
               c.databases_[d].tables[tb].indexes[k].oid = u.index_oid}

\* C14: in every reachable state, DropIndex called with the oid of a live
\* database and the oid of an index CreateIndex attached to one of its tables
\* returns SUCCESS, after which the index is attached to no table and the
\* index-catalog has no tuple for it.
C14_DropIndexDrops ==
  \A d \in 1..Len(databases_) : \A u \in IndexTuplesOf(State, d) :
    LET r == DropIndex(State, databases_[d].oid, u.index_oid)
    IN /\ r.result = SUCCESS
       /\ u.index_oid \notin LiveIndexOids(r.c)
       /\ u.index_oid \notin IndexTupleOids(r.c)

\* C15: in every reachable state, DropIndex returns FAILURE, dereferences no
\* missing object and changes nothing whenever database_oid names no live
\* database, the index-catalog has no tuple for index_oid, or the table the
\* tuple names is not in that database.
C15_DropIndexRejects ==
  \A database_oid \in DatabaseOidArgs, index_oid \in IndexOidArgs :
    LET d == GetDatabaseWithOid(State, database_oid)
        table_oid == GetTableidByOid(State, index_oid)
    IN (\/ d = 0
        \/ table_oid = INVALID_OID
        \/ DbGetTableWithOid(databases_[d], table_oid) = 0)
       => DropIndex(State, database_oid, index_oid) = Fail(State)

\* the oids of the tables of the live database of an oid
OwnedTableOids(c, database_oid) ==
  LET d == GetDatabaseWithOid(c, database_oid)
  IN IF d = 0 THEN {}
     ELSE {c.databases_[d].tables[tb].oid : tb \in 1..Len(c.databases_[d].tables)}

\* no table of a set of oids is live or has a table tuple or a column tuple
TablesGone(c, table_oids) ==
  /\ table_oids \cap LiveTableOids(c) = {}
  /\ table_oids \cap TableTupleOids(c) = {}
  /\ \A u \in c.pg_attribute : u.table_oid \notin table_oids

C17_DropDatabaseWithNameFrame ==
  \A n \in DatabaseNames \cup {"nodb"} :
    LET r == DropDatabaseWithName(State, n)
        named == DatabaseTuplesNamed(State, n)
    IN IF named = {}
       THEN r = Fail(State)
       ELSE /\ r.result = SUCCESS
            /\ Cardinality(pg_database \ r.c.pg_database) = 1
            /\ pg_database \ r.c.pg_database \subseteq named
            /\ r.c.pg_database \subseteq pg_database
            /\ r.c = [State EXCEPT !.pg_database = r.c.pg_database]
            /\ GetDatabaseCount(r.c) = GetDatabaseCount(State)
            /\ \A u \in named :
                 HasDatabase(r.c, u.database_oid) = HasDatabase(State, u.database_oid)

\* C17 witness: DropDatabaseWithName has just returned SUCCESS for a database
\* with a table: the database is live without a tuple, and its table still
\* has its table tuple and its column tuples.
C17_Witness ==
  /\ last = [op |-> "DropDatabaseWithName", result |-> SUCCESS]
  /\ \E d \in 1..Len(databases_) :
       /\ databases_[d].oid \notin DatabaseTupleOids(State)
       /\ \E tb \in 1..Len(databases_[d].tables) :
            /\ databases_[d].tables[tb].oid \in TableTupleOids(State)
            /\ \E u \in pg_attribute : u.table_oid = databases_[d].tables[tb].oid

\* what a successful drop of table tb of database d leaves: the table is out of
\* its database and of GetTableWithOid, none of its indexes is attached to a
\* table, its table tuple and its column tuples are gone, and everything else
\* (the other tables, the other tuples, the other databases) is as before
TableDropped(c, d, tb, after) ==
  LET table == c.databases_[d].tables[tb] IN
  /\ DbGetTableWithOid(after.databases_[d], table.oid) = 0
  /\ table.oid \notin LiveTableOids(after)
  /\ \A k \in 1..Len(table.indexes) : table.indexes[k].oid \notin LiveIndexOids(after)
  /\ table.oid \notin TableTupleOids(after)
  /\ \A u \in after.pg_attribute : u.table_oid # table.oid
  /\ after = [c EXCEPT !.databases_[d].tables = RemoveAt(@, tb),
                       !.pg_table = {u \in @ : u.table_oid # table.oid},
                       !.pg_attribute = {u \in @ : u.table_oid # table.oid}]

C19_DropTableRejects ==
  /\ \A n \in DatabaseNames, t \in TableNames :
       LET d == GetDatabaseWithName(State, n)
       IN (d # 0 /\ DbGetTableWithName(databases_[d], t) = 0)
            => DropTable(State, n, t) = Fail(State)
  /\ \A database_oid \in DatabaseOidArgs, table_oid \in TableOidArgs :
       LET d == GetDatabaseWithOid(State, database_oid)
       IN (d # 0 /\ DbGetTableWithOid(databases_[d], table_oid) = 0)
            => DropTableWithOid(State, database_oid, table_oid) = Fail(State)

\* the table names the by-name lookup is asked for: those of the user tables,
\* of a catalog table and of the metrics tables
LookupTableNames ==
  TableNames \cup {TABLE_CATALOG_NAME, DATABASE_METRIC_NAME, INDEX_METRIC_NAME,
                   TABLE_METRIC_NAME, QUERY_METRIC_NAME}

\* C20: in every reachable state, GetDatabaseWithName returns a database only
\* if a database tuple carries the name and the oid of the returned object,
\* and GetTableWithName returns a table only if a table tuple carries the name
\* and the oid of the returned object: a live object without a tuple is never
\* returned by a by-name lookup.
C20_ByNameThroughTuples ==
  /\ \A n \in DatabaseNames \cup {"nodb"} :
       LET d == GetDatabaseWithName(State, n)
       IN d # 0 =>
            \E u \in pg_database :
              u.database_name = n /\ u.database_oid = databases_[d].oid
  /\ \A n \in DatabaseNames \cup {"nodb"}, t \in LookupTableNames :
       LET p == GetTableWithName(State, n, t)
       IN p # <<0, 0>> =>
            \E u \in pg_table :
              u.table_name = t /\ u.table_oid = databases_[p[1]].tables[p[2]].oid

\* C21: while the process runs, GetFunction(name) returns the data of the
\* latest registration of name when name is registered and throws, which is no
\* FAILURE result, when it is not; RemoveFunction of an absent name returns and
\* leaves the registry as it was; AddFunction of a registered name fails the
\* assertion, and InitializeFunctions never does. What is registered is read
\* from the history alone: the registrations of InitializeFunctions, then the
\* calls made since; a name is registered when the last call that named it
\* was an AddFunction
C21_FunctionRegistry ==
  /\ InitializeFunctions.result = RETURNED
  /\ ~fault =>
       \A n \in FunctionNames :
         LET r == SelectSeq([i \in 1..Len(BuiltinFunctions) |->
                              [op |-> "AddFunction", data |-> BuiltinFunctions[i]]] \o calls,
                           LAMBDA e : e.data.func_name = n)
         IN
           IF r # <<>> /\ r[Len(r)].op = "AddFunction"
             THEN /\ GetFunction(functions_, n) =
                       [result |-> RETURNED, value |-> r[Len(r)].data]
                  /\ \A p \in {"p", "q"} :
                       AddFunction(functions_, n, <<"INTEGER">>, "INTEGER", p).result = ABORTED
             ELSE /\ GetFunction(functions_, n).result = THROWN
                  /\ GetFunction(functions_, n).result \notin ResultType
                  /\ RemoveFunction(functions_, n) =
                       [functions_ |-> functions_, result |-> RETURNED]

\* "f" was registered, removed and registered again with another
\* implementation, and a GetFunction has returned since
C21_Witness ==
  /\ Len(calls) = 3
  /\ calls[1].op = "AddFunction" /\ calls[1].data.func_name = "f"
  /\ calls[2].op = "RemoveFunction" /\ calls[2].data.func_name = "f"
  /\ calls[3].op = "AddFunction" /\ calls[3].data.func_name = "f"
  /\ calls[3].data.func_ptr # calls[1].data.func_ptr
  /\ last = [op |-> "GetFunction", result |-> RETURNED]
  /\ GetFunction(functions_, "f").value.func_ptr = calls[3].data.func_ptr

\* C22: once the child has returned no tile, the GetNextTile call that got it
\* and every later one return no tile; a call asks the child at most once, a
\* tile the child returns is returned materialized by the call that pulled it,
\* and a call asks nothing only after the child has reported its end
C22_IdempotentExhaustion ==
  /\ child.calls = IF returns = <<>> THEN 0 ELSE returns[Len(returns)].calls
  /\ \A i \in 1..Len(returns) :
       LET before == IF i = 1 THEN 0 ELSE returns[i - 1].calls
           after == returns[i].calls
       IN /\ after \in {before, before + 1}
          /\ (\E k \in 1..after : ChildReturns(child, k) = NullTile) => ~returns[i].tile
          /\ (after = before + 1 /\ ChildReturns(child, after) # NullTile) => returns[i].tile
          /\ after = before => \E k \in 1..before : ChildReturns(child, k) = NullTile

\* the child was told to return no tile and then one: three calls returned
\* no tile, and only the first asked the child
C22_Witness ==
  /\ Len(returns) = 3
  /\ ~returns[1].tile /\ ~returns[2].tile /\ ~returns[3].tile
  /\ child.calls = 1
  /\ Len(child.script) = 2 /\ child.script[1] = NullTile /\ child.script[2] # NullTile

\* the logical tile the last GetNextTile call pulled, when it returned one
Pulled == ChildReturns(child, child.calls)
Materialized == last.op = "GetNextTile" /\ result # NullTile

\* C23: the tile GetNextTile returns has one column for every entry of the
\* plan map; for every visible row and every entry (old, new) it holds at
\* (row, new) the value the input holds at (row, old); and only the visible
\* rows are copied
C23_MaterializedValues ==
  Materialized =>
    LET M == executor.node IN
    /\ Len(result.columns) = Cardinality(DOMAIN M)
    /\ {M[o] : o \in DOMAIN M} = 0..(Len(result.columns) - 1)
    /\ result.visible = Pulled.visible
    /\ \A r \in Pulled.visible : \A o \in DOMAIN M :
         GetValue(tiles, result, r, M[o]) = GetValue(tiles, Pulled, r, o)
    /\ \A k \in 1..Len(result.columns) : tiles[result.columns[k].tile].rows = Pulled.visible

\* the reorder-and-drop plan run on a tile of which one row is visible
C23_Witness ==
  /\ Materialized
  /\ DOMAIN executor.node = {0, 1, 3}
  /\ Pulled.visible = {1}
  /\ GetValue(tiles, result, 1, 0) = <<"uninlined", 0, "13">>
  /\ GetValue(tiles, result, 1, 2) = <<"inlined", 10, "">>

C25_UninlinedIndependence ==
  result # NullTile =>
    \A r \in result.visible : \A k \in 1..Len(result.columns) :
      LET at == result.columns[k]
          v == tiles[at.tile].value[r, at.col]
      IN /\ ~v.inlined =>
              /\ v.pool = at.tile
              /\ GetValue(tiles, result, r, k - 1)
                   = GetValue(PopulateTiles(TupleCount), WrapBaseTiles(tiles, <<0, 1>>), r, 3)
         /\ GetValue(ReleaseStorage(tiles, {0, 1}), result, r, k - 1)
              = GetValue(tiles, result, r, k - 1)

\* the text column was materialized and the storage of the source tiles
\* released afterwards
C25_Witness ==
  /\ last.op = "ReleaseStorage"
  /\ result # NullTile
  /\ 3 \in DOMAIN executor.node
  /\ 0 \in result.visible
  /\ tiles[1].pool[0] = "released"
  /\ GetValue(tiles, result, 0, executor.node[3]) = <<"uninlined", 0, "3">>

\* the source base tiles the mapped columns of the pulled tile come from
Groups == {Pulled.columns[o + 1].tile : o \in DOMAIN executor.node}

C26_Bootstrap ==
  last.op = "Catalog" =>
    /\ \E i \in 1..Len(databases_) :
         databases_[i].oid = CATALOG_DATABASE_OID /\ databases_[i].name = CATALOG_DATABASE_NAME
    /\ Cardinality({t \in pg_database : t.database_oid = CATALOG_DATABASE_OID}) = 1
    /\ [database_oid |-> CATALOG_DATABASE_OID, database_name |-> CATALOG_DATABASE_NAME]
         \in pg_database
    /\ \A table \in { <<DATABASE_CATALOG_OID, DATABASE_CATALOG_NAME>>,
                       <<TABLE_CATALOG_OID, TABLE_CATALOG_NAME>>,
                       <<INDEX_CATALOG_OID, INDEX_CATALOG_NAME>>,
                       <<COLUMN_CATALOG_OID, COLUMN_CATALOG_NAME>> } :
         /\ Cardinality({t \in pg_table : t.table_oid = table[1]}) = 1
         /\ Cardinality({t \in pg_table : t.table_name = table[2]}) = 1
         /\ \E t \in pg_table :
              /\ t.table_oid = table[1] /\ t.table_name = table[2]
              /\ t.database_oid = CATALOG_DATABASE_OID

\* the catalog as its constructor leaves it: no call made yet, the one
\* database, the thirteen objects of the bootstrap constructed
C26_Witness ==
  /\ last.op = "Catalog"
  /\ Len(databases_) = 1
  /\ Len(created) = 13
  /\ Cardinality(pg_table) = 4

\* C27: a CreateTable call that finds the database and no table of the name
\* in it appends one table of a new oid to that database, adds to the table
\* catalog the one tuple of that oid, the table name and the database, and to
\* the column catalog one tuple for each column of the schema, of that oid, the
\* name of the column and its position; the other databases, the tables the
\* database had and the tuples of other tables and databases stay as they were
C27_CreateTableRegisters ==
  \A n \in DatabaseNames, tn \in TableNames, s \in Schemas, uninit \in ResultType :
    LET d == GetDatabaseWithName(State, n)
        r == CreateTable(State, n, tn, s, uninit).c
    IN (d # 0 /\ DbGetTableWithName(databases_[d], tn) = 0) =>
         LET before == databases_[d].tables
             after == r.databases_[d].tables
             table == after[Len(after)]
         IN /\ Len(r.databases_) = Len(databases_)
            /\ \A i \in 1..Len(databases_) : i # d => r.databases_[i] = databases_[i]
            /\ r.databases_[d].oid = databases_[d].oid
            /\ Len(after) = Len(before) + 1
            /\ \A j \in 1..Len(before) : after[j] = before[j]
            /\ table.name = tn /\ table.columns = s
            /\ table.oid \notin LiveTableOids(State) \cup TableTupleOids(State)
            /\ pg_table \subseteq r.pg_table
            /\ r.pg_table \ pg_table =
                 {[table_oid |-> table.oid, table_name |-> tn,
                   database_oid |-> databases_[d].oid, database_name |-> n]}
            /\ pg_attribute \subseteq r.pg_attribute
            /\ r.pg_attribute \ pg_attribute =
                 {[table_oid |-> table.oid, column_name |-> s[i].column_name,
                   column_offset |-> i - 1] : i \in 1..Len(s)}
            /\ Cardinality(r.pg_attribute \ pg_attribute) = Len(s)
            /\ r.pg_database = pg_database
            /\ \A t \in r.pg_index \ pg_index : t.table_oid = table.oid

\* CreateTable has added a table of three columns to database "a", which
\* was made after the bootstrap, and the column catalog holds its three tuples
C27_Witness ==
  /\ last = [op |-> "CreateTable", result |-> SUCCESS]
  /\ \E d \in 1..Len(databases_) :
       /\ databases_[d].name = "a"
       /\ \E j \in 1..Len(databases_[d].tables) :
            LET table == databases_[d].tables[j] IN
            /\ Len(table.columns) = 3
            /\ Cardinality({t \in pg_attribute : t.table_oid = table.oid}) = 3
            /\ \E t \in pg_table : t.table_oid = table.oid /\ t.database_name = "a"

\* C29: a thread that has left the critical section of CreateDatabase and
\* not yet inserted its tuple has its database in the list, where
\* GetDatabaseWithOid finds it, and no tuple of its oid in the database
\* catalog; catalog_mutex is held by none but a thread between the append and
\* the end of the block of lines 128-131
C29_ObjectBeforeTuple ==
  /\ \A th \in 1..NumThreads :
       threads[th].pc = "insert" =>
         /\ GetDatabaseWithOid(State, threads[th].database_oid) # 0
         /\ ~HasDatabaseTuple(State, threads[th].database_oid)
         /\ catalog_mutex # th
  /\ catalog_mutex # 0 => threads[catalog_mutex].pc = "unlock"

\* what another thread sees while thread 1 is between the append and the
\* insert: GetDatabaseWithOid returns the database, GetDatabaseWithName
\* returns nullptr, the mutex is free, and thread 2 is inside its own call
C29_Witness ==
  /\ threads[1].pc = "insert"
  /\ threads[2].pc = "new"
  /\ catalog_mutex = 0
  /\ GetDatabaseWithOid(State, threads[1].database_oid) # 0
  /\ GetDatabaseWithName(State, threads[1].database_name) = 0

\* C30: when all the threads that called CreateDatabase with one name have
\* returned, and they are two or more, one call has returned SUCCESS, one live
\* database carries the name and one tuple of the database catalog does
C30_OneCreateWins ==
  \A n \in {"a", "b"} :
    LET callers == {th \in 1..NumThreads : threads[th].database_name = n} IN
    (Cardinality(callers) >= 2 /\ \A th \in callers : threads[th].pc \in ResultType) =>
      /\ Cardinality({th \in callers : threads[th].pc = SUCCESS}) = 1
      /\ Cardinality(LiveDatabasesNamed(State, n)) = 1
      /\ Cardinality(DatabaseTuplesNamed(State, n)) = 1

\* C31: a lookup never calls GetOid on a Database that was deleted, and the
\* pointer GetDatabaseWithOid or GetDatabaseWithName returns, when it is not
\* null, is that of a database that is in the list and was not deleted
C31_LookupSafe ==
  /\ ~reader.read_destroyed
  /\ (reader.pc = "returned" /\ reader.op # "HasDatabase") => ~reader.dangling

\* C32: in every reachable state, CreateIndex called with the name of a
\* database that has a table of the given name with every requested column
\* returns SUCCESS and attaches the new index to that table, whichever table
\* oid the table catalog answers for the table name.
C32_CreateIndexResolves ==
  \A n \in DatabaseNames, t \in TableNames, q \in IndexRequests, i \in IndexNames :
    \A table_oid \in GetTableOidChoices(State, t) :
      LET r == CreateIndex(State, n, t, q.index_attr, i, q.unique_keys, q.index_type, table_oid)
          dt == GetTableWithName(State, n, t)
          d == dt[1]
          tb == dt[2]
      IN (/\ tb # 0
          /\ \A a \in 1..Len(q.index_attr) :
               q.index_attr[a] \in ColumnNames(databases_[d].tables[tb].columns))
         => /\ r.result = SUCCESS
            /\ \E k \in 1..Len(r.c.databases_[d].tables[tb].indexes) :
                 r.c.databases_[d].tables[tb].indexes[k].oid = oid_

\* C33: in every reachable state, no two live Database objects of databases_
\* have the same name, and no two database-catalog tuples have the same name.
C33_NamesUnique ==
  /\ \A i, j \in 1..Len(databases_) :
       databases_[i].name = databases_[j].name => i = j
  /\ \A t, u \in pg_database :
       t.database_name = u.database_name => t = u
====
